---- MODULE Spec2Model ----
(***************************************************************************)
(* Timer_A software UART (9600 8N1) of main.c: the transmit engine on      *)
(* capture/compare channel 0, the receive engine on channel 1, the         *)
(* rxBuffer mailbox and the foreground main loop that sleeps in LPM0,      *)
(* drives the display and echoes the received byte.                        *)
(*                                                                         *)
(* Time is the 16-bit counter TAR.  The CPU is fast against a bit period:  *)
(* handler bodies and straight-line foreground statements take no counter  *)
(* ticks; the counter advances (action Advance) to the next hardware event *)
(* while the foreground busy-waits, sleeps or runs the display routine,    *)
(* and while an interrupt request is pending for at most MaxLatency ticks. *)
(***************************************************************************)
EXTENDS Integers, Sequences, FiniteSets, TLC

(* ------------------------------------------------------------------ *)
(* Bounds of the model                                                 *)
(* ------------------------------------------------------------------ *)
MaxIter == 2          \* main-loop iterations explored
MaxFrames == 2        \* frames the far-end sender transmits
MaxLatency == 60      \* ticks an interrupt request may stay pending

(* ------------------------------------------------------------------ *)
(* Program constants                                                   *)
(* ------------------------------------------------------------------ *)
UART_TBIT_DIV_2 == 1000000 \div (9600 * 2)
UART_TBIT == 1000000 \div 9600

\* bits of TACCTLx (msp430g2231.h)
CCIFG == 1
OUT == 4
CCIE == 16
OUTMOD0 == 32
OUTMOD2 == 128
CAP == 256
SCCI == 1024
SCS == 2048
CM1 == 32768

Word == 65536         \* the counter and the registers are 16 bits wide

Bit(x, m) == (x \div m) % 2 = 1
Bis(x, m) == IF Bit(x, m) THEN x ELSE x + m
Bic(x, m) == IF Bit(x, m) THEN x - m ELSE x

\* ticks from counter value a until the counter next equals b (1..Word)
Dist(a, b) == IF (b - a) % Word = 0 THEN Word ELSE (b - a) % Word

Min(S) == CHOOSE x \in S : \A y \in S : x <= y

\* the i-th bit (0 = least significant) of v
BitAt(v, i) == (v \div (2 ^ i)) % 2

\* the two start-up texts of main, as character codes, without the NUL
Banner == << 71, 50, 120, 120, 49, 32, 84, 105, 109, 101, 114, 65, 32,
             85, 65, 82, 84, 13, 10 >>
Ready == << 82, 69, 65, 68, 89, 46, 13, 10 >>
Text(id) == IF id = 1 THEN Banner ELSE Ready

\* bytes the far-end sender may transmit, delays before its start edge,
\* and counter values at which the echo scenario starts
RxBytes == {65, 255}
StartDelays == {37}
TarSamples == {300, 64900}
\* bytes of malformed frames, and what the receive accumulator may hold
\* from the frame before
NoiseBytes == {0, 90, 255}
Residues == {0, 165}
\* counter value at which the line noise scenario starts
TarNoise == {300}

\* counter ticks the display routine setRows takes (two 16-bit shift-outs)
SetRowsTicks == {300, 1200}

VARIABLES
    TAR, TACCR0, TACCTL0, TACCR1, TACCTL1,   \* Timer_A registers
    TXD,                                     \* level of the TXD pin (OUT0)
    txData, rxBuffer,                        \* globals
    txBitCnt, rxBitCnt, rxData,              \* handler statics
    pc, byte, caller, string, value,         \* foreground position and locals
    rowsEnd,                                 \* counter value at which setRows returns
    LPM0,                                    \* CPUOFF in the foreground's SR
    isr,                                     \* position inside a handler
    iter,                                    \* main-loop iterations started
    loopback,                                \* TXD wired to RXD
    sLine, sBits, sNext, sCount, sByte,      \* far-end sender
    sPeriod,                                 \* ticks between its line levels
    hist                                     \* observation record (history)

hw == << TAR, TACCR0, TACCTL0, TACCR1, TACCTL1, TXD >>
fg == << pc, byte, caller, string, value, rowsEnd, iter >>
sender == << sLine, sBits, sNext, sCount, sByte, sPeriod >>
vars == << TAR, TACCR0, TACCTL0, TACCR1, TACCTL1, TXD, txData, rxBuffer,
           txBitCnt, rxBitCnt, rxData, pc, byte, caller, string, value,
           rowsEnd, LPM0, isr, iter, loopback, sLine, sBits, sNext, sCount,
           sByte, sPeriod, hist >>

\* level on the RXD pin
RXD == IF loopback THEN TXD ELSE sLine

(* ------------------------------------------------------------------ *)
(* Timer_A hardware                                                    *)
(* ------------------------------------------------------------------ *)
\* output unit 0 at EQU0: mode 0 drives the OUT bit, mode 1 sets, mode 5
\* resets, mode 4 toggles; the remaining modes are not used on channel 0
OutputUnit(ctl, cur) ==
    LET mode == (ctl \div OUTMOD0) % 8
    IN  CASE mode = 0 -> (IF Bit(ctl, OUT) THEN 1 ELSE 0)
          [] mode = 1 -> 1
          [] mode = 5 -> 0
          [] mode = 4 -> 1 - cur
          [] OTHER -> cur

\* an interrupt request of channel 0 / channel 1 is pending and enabled
Pend0 == Bit(TACCTL0, CCIFG) /\ Bit(TACCTL0, CCIE)
Pend1 == Bit(TACCTL1, CCIFG) /\ Bit(TACCTL1, CCIE)

\* the foreground is inside TimerA_UART_tx between the counter read of line
\* 141 and the return, where a handler that preempts it holds it up
TxWindow == pc \in {"L142", "L143", "L144", "L145", "L146"}

\* the counter value line 141 read
TxWindowStart == hist.tarRead

\* the foreground lets counter time pass: asleep, busy-waiting for the
\* transmitter, held up inside TimerA_UART_tx, inside the display routine,
\* or past the explored iterations
MainBlocked ==
    \/ LPM0
    \/ TxWindow
    \/ pc = "L140" /\ Bit(TACCTL0, CCIE)
    \/ pc = "setRows" /\ TAR # rowsEnd
    \/ pc = "L106" /\ iter >= MaxIter

\* d ticks from now every pending request, raised when the counter was at
\* its compare/capture value, is still at most MaxLatency ticks old, and so
\* is the hold-up of the foreground inside TimerA_UART_tx
LatencyOK(d) ==
    /\ Pend0 => ((TAR - TACCR0) % Word) + d <= MaxLatency
    /\ Pend1 => ((TAR - TACCR1) % Word) + d <= MaxLatency
    /\ TxWindow => ((TAR - TxWindowStart) % Word) + d <= MaxLatency

\* the frame the far end puts on its line for byte b: start, d0..d7, stop,
\* and the return to idle one bit period after the stop bit began
SenderFrame(b) == << 0 >> \o [i \in 1..8 |-> BitAt(b, i - 1)] \o << 1, 1 >>

\* the counter runs to the next hardware event and the hardware acts on it:
\* the far end's bit boundary, EQU0 (output unit 0 drives TXD, CCIFG set),
\* a falling edge on RXD in capture mode (TACCR1 latches TAR, CCIFG set) and
\* EQU1 in compare mode (SCCI latches RXD, CCIFG set)
Advance ==
    /\ isr = "none"
    /\ MainBlocked
    /\ LET cand == {Dist(TAR, TACCR0)}
                   \cup (IF Bit(TACCTL1, CAP) THEN {} ELSE {Dist(TAR, TACCR1)})
                   \cup (IF sBits # << >> THEN {Dist(TAR, sNext)} ELSE {})
                   \cup (IF pc = "setRows" THEN {Dist(TAR, rowsEnd)} ELSE {})
           d == Min(cand)
           t == (TAR + d) % Word
           sEvt == sBits # << >> /\ sNext = t
           sNew == IF sEvt THEN Head(sBits) ELSE sLine
           equ0 == TACCR0 = t
           txdNew == IF equ0 THEN OutputUnit(TACCTL0, TXD) ELSE TXD
           rxdNew == IF loopback THEN txdNew ELSE sNew
           capture == Bit(TACCTL1, CAP) /\ Bit(TACCTL1, CM1)
                      /\ RXD = 1 /\ rxdNew = 0
           equ1 == ~Bit(TACCTL1, CAP) /\ TACCR1 = t
           inFlight == Bit(TACCTL0, CCIE)
       IN  /\ LatencyOK(d)
           /\ TAR' = t
           /\ sLine' = sNew
           /\ sBits' = IF sEvt THEN Tail(sBits) ELSE sBits
           /\ sNext' = IF sEvt THEN (sNext + sPeriod) % Word ELSE sNext
           /\ TXD' = txdNew
           /\ TACCTL0' = IF equ0 THEN Bis(TACCTL0, CCIFG) ELSE TACCTL0
           /\ TACCR1' = IF capture THEN t ELSE TACCR1
           /\ \E s \in {RXD, rxdNew} :
                /\ TACCTL1' = IF capture THEN Bis(TACCTL1, CCIFG)
                              ELSE IF equ1
                                   THEN Bis(IF s = 1 THEN Bis(TACCTL1, SCCI)
                                            ELSE Bic(TACCTL1, SCCI), CCIFG)
                                   ELSE TACCTL1
                /\ hist' = [hist EXCEPT
                     !.txLevels = IF equ0 /\ inFlight THEN Append(@, txdNew) ELSE @,
                     !.txTimes = IF equ0 /\ inFlight THEN Append(@, t) ELSE @,
                     !.capT = IF capture THEN t ELSE @,
                     !.rxSamples = IF capture THEN << >>
                                   ELSE IF equ1 THEN Append(@, s) ELSE @,
                     !.rxTimes = IF capture THEN << >>
                                 ELSE IF equ1 THEN Append(@, t) ELSE @]
    /\ UNCHANGED << TACCR0, txData, rxBuffer, txBitCnt, rxBitCnt, rxData,
                    fg, LPM0, isr, loopback, sCount, sByte, sPeriod >>

\* the last character of the start-up text has been passed to TimerA_UART_tx
LastCharPassed == string.id = 2 /\ string.idx > Len(Ready)

\* nothing is going on: the foreground sleeps, the transmitter is idle and
\* the receiver waits for a start edge
Quiescent == LPM0 /\ ~Bit(TACCTL0, CCIE) /\ Bit(TACCTL1, CAP) /\ ~Pend1

\* the far end, silent until the start-up text's last character is passed
\* on, starts a frame d ticks from now: its first frame at any moment, a
\* later one, of another byte than the one before, directly behind the
\* frame before or when nothing is going on
SenderStart ==
    /\ ~loopback
    /\ isr = "none"
    /\ MainBlocked
    /\ LastCharPassed
    /\ \/ sCount = 0
       \/ TAR = (sNext - sPeriod) % Word
       \/ Quiescent
    /\ sBits = << >>
    /\ sCount < MaxFrames
    /\ \E b \in RxBytes, d \in StartDelays :
         /\ sCount = 0 \/ b # sByte
         /\ sBits' = SenderFrame(b)
         /\ sNext' = (TAR + d) % Word
         /\ sByte' = b
    /\ sPeriod' = UART_TBIT
    /\ sCount' = sCount + 1
    /\ UNCHANGED << hw, txData, rxBuffer, txBitCnt, rxBitCnt, rxData, fg,
                    LPM0, isr, loopback, sLine, hist >>

\* a malformed frame on RXD in half bit periods: a start bit that is low
\* for its whole period (g = 0) or for its first half only (g = 1, a spurious
\* edge), the bits of b, a stop bit period at level s, then idle
NoiseFrame(g, b, s) ==
    << 0, g >> \o [i \in 1..16 |-> BitAt(b, (i - 1) \div 2)] \o << s, s, 1 >>

\* the far end, or noise on the line, puts one malformed frame on RXD
NoiseStart ==
    /\ ~loopback
    /\ isr = "none"
    /\ MainBlocked
    /\ sCount = 0
    /\ sBits = << >>
    /\ \E g \in {0, 1}, b \in NoiseBytes, s \in {0, 1}, d \in StartDelays :
         /\ sBits' = NoiseFrame(g, b, s)
         /\ sNext' = (TAR + d) % Word
         /\ sByte' = b
         /\ hist' = [hist EXCEPT !.far = [start |-> (TAR + d) % Word,
                                          glitch |-> g, stop |-> s]]
    /\ sPeriod' = UART_TBIT_DIV_2
    /\ sCount' = sCount + 1
    /\ UNCHANGED << hw, txData, rxBuffer, txBitCnt, rxBitCnt, rxData, fg,
                    LPM0, isr, loopback, sLine >>

(* ------------------------------------------------------------------ *)
(* Interrupt handlers                                                  *)
(* ------------------------------------------------------------------ *)
\* lines 172-177: the level of the next bit is put into the output mode,
\* set (mode 1) for a mark and reset (mode 5) for a space
TxBitOut_Inverted(ctl, data) ==
    IF data % 2 = 1 THEN Bis(ctl, OUTMOD2) ELSE Bic(ctl, OUTMOD2)

TxBitOut(ctl, data) ==
    IF data % 2 = 1 THEN Bic(ctl, OUTMOD2) ELSE Bis(ctl, OUTMOD2)

\* lines 168-169: all bits sent, the interrupt is disabled and the bit
\* counter reloaded
TxReload_Missing(cnt) == cnt

TxReload(cnt) == 10

\* line 179: txBitCnt--, an unsigned char
TxCountDown_Stuck(cnt) == cnt

TxCountDown(cnt) == (cnt - 1) % 256

\* line 166: TACCR0 += UART_TBIT, the next bit boundary is the last one plus
\* one bit period, whatever the counter reads by now
TxNextTarget_FromCounter(ccr) == (TAR + UART_TBIT) % Word

TxNextTarget(ccr) == (ccr + UART_TBIT) % Word

\* Timer_A0_ISR: the transmit handler; the request flag of channel 0 is
\* cleared by the hardware when the request is serviced
Timer_A0_ISR ==
    /\ isr = "none"
    /\ Pend0
    /\ TACCR0' = TxNextTarget(TACCR0)
    /\ IF txBitCnt = 0
       THEN /\ TACCTL0' = Bic(Bic(TACCTL0, CCIFG), CCIE)
            /\ txBitCnt' = TxReload(txBitCnt)
            /\ txData' = txData
            /\ hist' = [hist EXCEPT !.frames = Append(@, hist.txLevels),
                                    !.txIsr = @ + 1]
       ELSE /\ TACCTL0' = TxBitOut(Bic(TACCTL0, CCIFG), txData)
            /\ txData' = txData \div 2
            /\ txBitCnt' = TxCountDown(txBitCnt)
            /\ hist' = [hist EXCEPT !.txIsr = @ + 1]
    /\ UNCHANGED << TAR, TACCR1, TACCTL1, TXD, rxBuffer, rxBitCnt, rxData,
                    fg, LPM0, isr, loopback, sender >>

\* lines 193-196 on a start edge: the captured counter value plus one and a
\* half bit periods, the middle of data bit 0
RxStartTarget_NoHalfBit(ccr) == (ccr + UART_TBIT) % Word

RxStartTarget(ccr) == (((ccr + UART_TBIT) % Word) + UART_TBIT_DIV_2) % Word

\* lines 199-202: the accumulator is shifted right and the bit waiting in
\* the receive latch SCCI goes into its most significant bit
RxShift_OrFirst(acc, ctl) ==
    IF Bit(ctl, SCCI) THEN Bis(acc, 128) \div 2 ELSE acc \div 2

RxShift_Live(acc, ctl) ==
    IF RXD = 1 THEN Bis(acc \div 2, 128) ELSE acc \div 2

RxShift_NoShift(acc, ctl) ==
    IF Bit(ctl, SCCI) THEN Bis(acc, 128) ELSE acc

RxShift(acc, ctl) ==
    IF Bit(ctl, SCCI) THEN Bis(acc \div 2, 128) ELSE acc \div 2

\* line 205: rxBuffer = rxData, whatever the mailbox held
RxStore_KeepUnread(data, old) == IF hist.unread = 0 THEN data ELSE old

RxStore(data, old) == data

\* line 204: if (rxBitCnt == 0), all bits received
RxAllBits_Any(cnt) == TRUE

RxAllBits(cnt) == cnt = 0

\* line 206: the bit counter is reloaded
RxReload_Missing(cnt) == cnt

RxReload(cnt) == 8

\* Timer_A1_ISR, lines 191-205: reading TAIV clears the request flag of
\* channel 1; channel 0 is served first when both requests are pending.
\* On the last bit the handler has stored rxBuffer and goes on at line 206.
Timer_A1_ISR ==
    /\ isr = "none"
    /\ Pend1
    /\ ~Pend0
    /\ LET ctl == Bic(TACCTL1, CCIFG)
           data == RxShift(rxData, ctl)
           cnt == (rxBitCnt - 1) % 256
       IN  IF Bit(ctl, CAP)
           THEN /\ TACCTL1' = Bic(ctl, CAP)
                /\ TACCR1' = RxStartTarget(TACCR1)
                /\ UNCHANGED << rxData, rxBitCnt, rxBuffer, isr, hist >>
           ELSE /\ TACCTL1' = ctl
                /\ TACCR1' = (TACCR1 + UART_TBIT) % Word
                /\ rxData' = data
                /\ rxBitCnt' = cnt
                /\ IF RxAllBits(cnt)
                   THEN /\ rxBuffer' = RxStore(data, rxBuffer)
                        /\ isr' = "A1_206"
                        /\ hist' = [hist EXCEPT !.done = @ + 1,
                                                !.unread = @ + 1,
                                                !.rxBytes = Append(@, data),
                                                !.acc = data,
                                                !.got = hist.rxSamples]
                   ELSE UNCHANGED << rxBuffer, isr, hist >>
    /\ UNCHANGED << TAR, TACCR0, TACCTL0, TXD, txData, txBitCnt, fg, LPM0,
                    loopback, sender >>

\* lines 206-208 written with the transmitter's bit counter reloaded as
\* well, as a handler sharing one counter between the engines would do
Timer_A1_ISR_206_SharedCounter ==
    /\ isr = "A1_206"
    /\ rxBitCnt' = RxReload(rxBitCnt)
    /\ txBitCnt' = RxReload(txBitCnt)
    /\ TACCTL1' = Bis(TACCTL1, CAP)
    /\ LPM0' = FALSE
    /\ isr' = "none"
    /\ hist' = [hist EXCEPT !.woke = LPM0]
    /\ UNCHANGED << TAR, TACCR0, TACCTL0, TACCR1, TXD, txData, rxBuffer,
                    rxData, fg, loopback, sender >>

\* Timer_A1_ISR, lines 206-208 and the return: the bit counter is reloaded,
\* the channel goes back to capture mode and CPUOFF is cleared in the saved
\* status register, so the foreground runs on after the return
Timer_A1_ISR_206 ==
    /\ isr = "A1_206"
    /\ rxBitCnt' = RxReload(rxBitCnt)
    /\ TACCTL1' = Bis(TACCTL1, CAP)
    /\ LPM0' = FALSE
    /\ isr' = "none"
    /\ hist' = [hist EXCEPT !.woke = LPM0]
    /\ UNCHANGED << TAR, TACCR0, TACCTL0, TACCR1, TXD, txData, rxBuffer,
                    txBitCnt, rxData, fg, loopback, sender >>

(* ------------------------------------------------------------------ *)
(* Foreground                                                          *)
(* ------------------------------------------------------------------ *)
\* the foreground executes: no handler is running (a handler runs to its
\* return before the interrupted code goes on) and the CPU is not off
FgRuns_DuringHandler == ~LPM0

FgRuns == isr = "none" /\ ~LPM0

\* TimerA_UART_init: TXD idles at mark, channel 1 captures falling edges
\* with its interrupt enabled, the counter starts in continuous mode
TimerA_UART_init ==
    /\ FgRuns
    /\ pc = "L99"
    /\ TACCTL0' = OUT
    /\ TXD' = OutputUnit(OUT, TXD)
    /\ TACCTL1' = SCS + CM1 + CAP + CCIE
    /\ pc' = "L100"
    /\ UNCHANGED << TAR, TACCR0, TACCR1, txData, rxBuffer, txBitCnt,
                    rxBitCnt, rxData, byte, caller, string, value, rowsEnd, iter,
                    LPM0, isr, loopback, sender, hist >>

\* main, lines 100 and 101: the two calls of TimerA_UART_print
main_print ==
    /\ FgRuns
    /\ pc \in {"L100", "L101"}
    /\ string' = [id |-> IF pc = "L100" THEN 1 ELSE 2, idx |-> 1]
    /\ pc' = "L154"
    /\ UNCHANGED << hw, txData, rxBuffer, txBitCnt, rxBitCnt, rxData, byte,
                    caller, value, rowsEnd, iter, LPM0, isr, loopback, sender, hist >>

\* line 155: *string++ passes the character on and steps to the next one
NextChar_Skip(idx) == idx + 2

NextChar(idx) == idx + 1

\* TimerA_UART_print: while (*string) TimerA_UART_tx(*string++)
TimerA_UART_print ==
    /\ FgRuns
    /\ pc = "L154"
    /\ IF string.idx > Len(Text(string.id))
       THEN /\ pc' = IF string.id = 1 THEN "L101" ELSE "L106"
            /\ UNCHANGED << byte, caller, string >>
       ELSE /\ byte' = Text(string.id)[string.idx]
            /\ string' = [string EXCEPT !.idx = NextChar(@)]
            /\ caller' = "print"
            /\ pc' = "L140"
    /\ UNCHANGED << hw, txData, rxBuffer, txBitCnt, rxBitCnt, rxData, value, rowsEnd,
                    iter, LPM0, isr, loopback, sender, hist >>

\* line 140: the loop is left once the last character got sent
TxWaitOver_NoWait == TRUE

TxWaitOver == ~Bit(TACCTL0, CCIE)

\* TimerA_UART_tx, line 140: while (TACCTL0 & CCIE);
TimerA_UART_tx_140 ==
    /\ FgRuns
    /\ pc = "L140"
    /\ TxWaitOver
    /\ pc' = "L141"
    /\ UNCHANGED << hw, txData, rxBuffer, txBitCnt, rxBitCnt, rxData, byte,
                    caller, string, value, rowsEnd, iter, LPM0, isr, loopback, sender,
                    hist >>

\* line 141: TACCR0 = TAR
TimerA_UART_tx_141 ==
    /\ FgRuns
    /\ pc = "L141"
    /\ TACCR0' = TAR
    /\ pc' = "L142"
    /\ hist' = [hist EXCEPT !.tarRead = TAR]
    /\ UNCHANGED << TAR, TACCTL0, TACCR1, TACCTL1, TXD, txData, rxBuffer,
                    txBitCnt, rxBitCnt, rxData, byte, caller, string, value, rowsEnd,
                    iter, LPM0, isr, loopback, sender >>

\* line 142: one bit time till the first compare match
TxFirstTarget_HalfBit(ccr) == (ccr + UART_TBIT_DIV_2) % Word

TxFirstTarget(ccr) == (ccr + UART_TBIT) % Word

\* line 142: TACCR0 += UART_TBIT
TimerA_UART_tx_142 ==
    /\ FgRuns
    /\ pc = "L142"
    /\ TACCR0' = TxFirstTarget(TACCR0)
    /\ pc' = "L143"
    /\ UNCHANGED << TAR, TACCTL0, TACCR1, TACCTL1, TXD, txData, rxBuffer,
                    txBitCnt, rxBitCnt, rxData, byte, caller, string, value, rowsEnd,
                    iter, LPM0, isr, loopback, sender, hist >>

\* line 143: TACCTL0 = OUTMOD0 + CCIE; the byte is accepted
TimerA_UART_tx_143 ==
    /\ FgRuns
    /\ pc = "L143"
    /\ TACCTL0' = OUTMOD0 + CCIE
    /\ pc' = "L144"
    /\ hist' = [hist EXCEPT !.txByte = byte,
                            !.txAccT = hist.tarRead,
                            !.accepted = Append(@, byte),
                            !.txLevels = << >>,
                            !.txTimes = << >>,
                            !.txIsr = 0,
                            !.txIdle = TXD]
    /\ UNCHANGED << TAR, TACCR0, TACCR1, TACCTL1, TXD, txData, rxBuffer,
                    txBitCnt, rxBitCnt, rxData, byte, caller, string, value, rowsEnd,
                    iter, LPM0, isr, loopback, sender >>

\* line 144: txData = byte
TimerA_UART_tx_144 ==
    /\ FgRuns
    /\ pc = "L144"
    /\ txData' = byte
    /\ pc' = "L145"
    /\ UNCHANGED << hw, rxBuffer, txBitCnt, rxBitCnt, rxData, byte, caller,
                    string, value, rowsEnd, iter, LPM0, isr, loopback, sender, hist >>

\* line 145: the mark stop bit is added above the eight data bits
TxStopBit_Missing(data) == data

TxStopBit(data) == Bis(data, 256)

\* line 145: txData |= 0x100
TimerA_UART_tx_145 ==
    /\ FgRuns
    /\ pc = "L145"
    /\ txData' = TxStopBit(txData)
    /\ pc' = "L146"
    /\ UNCHANGED << hw, rxBuffer, txBitCnt, rxBitCnt, rxData, byte, caller,
                    string, value, rowsEnd, iter, LPM0, isr, loopback, sender, hist >>

\* line 146: the space start bit is added below the data bits
TxStartBit_Missing(data) == data

TxStartBit(data) == (data * 2) % Word

\* line 146: txData <<= 1, and the return to the caller
TimerA_UART_tx_146 ==
    /\ FgRuns
    /\ pc = "L146"
    /\ txData' = TxStartBit(txData)
    /\ pc' = IF caller = "print" THEN "L154" ELSE "L106"
    /\ UNCHANGED << hw, rxBuffer, txBitCnt, rxBitCnt, rxData, byte, caller,
                    string, value, rowsEnd, iter, LPM0, isr, loopback, sender, hist >>

TimerA_UART_tx ==
    \/ TimerA_UART_tx_140
    \/ TimerA_UART_tx_141
    \/ TimerA_UART_tx_142
    \/ TimerA_UART_tx_143
    \/ TimerA_UART_tx_144
    \/ TimerA_UART_tx_145
    \/ TimerA_UART_tx_146

\* main, line 106: __bis_SR_register(LPM0_bits)
main_106 ==
    /\ FgRuns
    /\ pc = "L106"
    /\ iter < MaxIter
    /\ LPM0' = TRUE
    /\ iter' = iter + 1
    /\ pc' = "L109"
    /\ UNCHANGED << hw, txData, rxBuffer, txBitCnt, rxBitCnt, rxData, byte,
                    caller, string, value, rowsEnd, isr, loopback, sender, hist >>

\* main, line 109: setRows(0, rxBuffer) is called with the mailbox byte
main_109 ==
    /\ FgRuns
    /\ pc = "L109"
    /\ value' = rxBuffer
    /\ \E t \in SetRowsTicks : rowsEnd' = (TAR + t) % Word
    /\ pc' = "setRows"
    /\ hist' = [hist EXCEPT !.unread = 0,
                            !.skipped = hist.unread,
                            !.seenAt = hist.done,
                            !.prevSeenAt = hist.seenAt,
                            !.consumed = @ + 1]
    /\ UNCHANGED << hw, txData, rxBuffer, txBitCnt, rxBitCnt, rxData, byte,
                    caller, string, iter, LPM0, isr, loopback, sender >>

\* setRows shifts the row pattern out to the display and returns
setRows ==
    /\ FgRuns
    /\ pc = "setRows"
    /\ TAR = rowsEnd
    /\ pc' = "L123"
    /\ UNCHANGED << hw, txData, rxBuffer, txBitCnt, rxBitCnt, rxData, byte,
                    caller, string, value, rowsEnd, iter, LPM0, isr, loopback, sender,
                    hist >>

\* main, line 123: TimerA_UART_tx(rxBuffer)
main_123 ==
    /\ FgRuns
    /\ pc = "L123"
    /\ byte' = rxBuffer
    /\ caller' = "main"
    /\ pc' = "L140"
    /\ UNCHANGED << hw, txData, rxBuffer, txBitCnt, rxBitCnt, rxData, string,
                    value, rowsEnd, iter, LPM0, isr, loopback, sender, hist >>

(* ------------------------------------------------------------------ *)
(* Specifications                                                      *)
(* ------------------------------------------------------------------ *)
NoHist ==
    [txByte |-> 0, tarRead |-> 0, txAccT |-> 0, txLevels |-> << >>, txTimes |-> << >>,
     txIdle |-> 1, accepted |-> << >>, frames |-> << >>,
     capT |-> 0, rxSamples |-> << >>, rxTimes |-> << >>, got |-> << >>,
     rxBytes |-> << >>, done |-> 0, unread |-> 0, acc |-> 0,
     woke |-> FALSE, txIsr |-> 0,
     skipped |-> 0, seenAt |-> 0, prevSeenAt |-> 0, consumed |-> 0,
     far |-> [start |-> 0, glitch |-> 0, stop |-> 1]]

\* main has set up the clock and the ports and is about to call
\* TimerA_UART_init; the timer registers hold their reset values
Init ==
    /\ TAR = 0 /\ TACCR0 = 0 /\ TACCTL0 = 0 /\ TACCR1 = 0 /\ TACCTL1 = 0
    /\ TXD = 0
    /\ txData = 0 /\ rxBuffer = 0
    /\ txBitCnt = 10 /\ rxBitCnt = 8 /\ rxData = 0
    /\ pc = "L99" /\ byte = 0 /\ caller = "main"
    /\ string = [id |-> 1, idx |-> 1] /\ value = 0 /\ rowsEnd = 0
    /\ LPM0 = FALSE /\ isr = "none" /\ iter = 0
    /\ loopback \in BOOLEAN
    /\ sLine = 1 /\ sBits = << >> /\ sNext = 0 /\ sCount = 0 /\ sByte = 0
    /\ sPeriod = UART_TBIT
    /\ hist = NoHist

Next ==
    \/ Advance
    \/ SenderStart
    \/ Timer_A0_ISR
    \/ Timer_A1_ISR
    \/ Timer_A1_ISR_206
    \/ TimerA_UART_init
    \/ main_print
    \/ TimerA_UART_print
    \/ TimerA_UART_tx
    \/ main_106
    \/ main_109
    \/ setRows
    \/ main_123

Spec == Init /\ [][Next]_vars

\* the echo scenario: the main loop has a byte b in the mailbox and is about
\* to echo it (line 123); the transmitter is idle after its last frame, the
\* receiver waits for a start edge, and TXD is wired to RXD
InitEcho ==
    /\ TAR \in TarSamples
    /\ TACCR0 = (TAR - 3 * UART_TBIT) % Word
    /\ TACCTL0 = OUTMOD0 + CCIFG
    /\ TACCR1 = (TAR - UART_TBIT) % Word
    /\ TXD = 1
    /\ txData = 0
    /\ rxBuffer \in 0..255
    /\ TACCTL1 = SCS + CM1 + CAP + CCIE + (IF rxBuffer >= 128 THEN SCCI ELSE 0)
    /\ txBitCnt = 10 /\ rxBitCnt = 8 /\ rxData = rxBuffer
    /\ pc = "L123" /\ byte = 10 /\ caller = "print"
    /\ string = [id |-> 2, idx |-> Len(Ready) + 1] /\ value = rxBuffer
    /\ rowsEnd = TAR
    /\ LPM0 = FALSE /\ isr = "none" /\ iter = 1
    /\ loopback = TRUE
    /\ sLine = 1 /\ sBits = << >> /\ sNext = 0 /\ sCount = 0 /\ sByte = 0
    /\ sPeriod = UART_TBIT
    /\ hist = NoHist

NextEcho ==
    \/ Advance
    \/ Timer_A0_ISR
    \/ Timer_A1_ISR
    \/ Timer_A1_ISR_206
    \/ TimerA_UART_tx
    \/ main_106
    \/ main_109
    \/ setRows
    \/ main_123

SpecEcho == InitEcho /\ [][NextEcho]_vars

\* the line noise scenario: main sleeps at line 106 with transmitter and
\* receiver at rest, the accumulator holding the byte of the frame before;
\* one malformed frame arrives, well-formed ones may follow.  Counter,
\* interrupt logic and CPU do not stop
InitNoise ==
    /\ TAR \in TarNoise
    /\ TACCR0 = (TAR - 3 * UART_TBIT) % Word
    /\ TACCTL0 = OUTMOD0 + CCIFG
    /\ TACCR1 = (TAR - UART_TBIT) % Word
    /\ TXD = 1
    /\ txData = 0
    /\ rxData \in Residues
    /\ rxBuffer = rxData
    /\ TACCTL1 = SCS + CM1 + CAP + CCIE + (IF rxData >= 128 THEN SCCI ELSE 0)
    /\ txBitCnt = 10 /\ rxBitCnt = 8
    /\ pc = "L109" /\ byte = 10 /\ caller = "print"
    /\ string = [id |-> 2, idx |-> Len(Ready) + 1] /\ value = 0
    /\ rowsEnd = TAR
    /\ LPM0 = TRUE /\ isr = "none" /\ iter = 1
    /\ loopback = FALSE
    /\ sLine = 1 /\ sBits = << >> /\ sNext = 0 /\ sCount = 0 /\ sByte = 0
    /\ sPeriod = UART_TBIT
    /\ hist = NoHist

\* a well-formed frame follows once line, receiver and main are at rest
SenderResync == Quiescent /\ sLine = 1 /\ SenderStart

NextNoise ==
    \/ Advance
    \/ NoiseStart
    \/ SenderResync
    \/ Timer_A0_ISR
    \/ Timer_A1_ISR
    \/ Timer_A1_ISR_206
    \/ TimerA_UART_tx
    \/ main_106
    \/ main_109
    \/ setRows
    \/ main_123

SpecNoise == InitNoise /\ [][NextNoise]_vars /\ WF_vars(NextNoise)

\* the loopback run from reset, with TXD wired to RXD and no far end.  The
\* counter, the interrupt logic and the CPU do not stop: whenever a step is
\* possible, one is eventually taken
InitLoop == Init /\ loopback

NextLoop ==
    \/ Advance
    \/ Timer_A0_ISR
    \/ Timer_A1_ISR
    \/ Timer_A1_ISR_206
    \/ TimerA_UART_init
    \/ main_print
    \/ TimerA_UART_print
    \/ TimerA_UART_tx
    \/ main_106
    \/ main_109
    \/ setRows
    \/ main_123

SpecLoop == InitLoop /\ [][NextLoop]_vars /\ WF_vars(NextLoop)

(* ------------------------------------------------------------------ *)
(* Observations used by the properties                                 *)
(* ------------------------------------------------------------------ *)
\* the ten levels of the 8N1 frame of byte b: start, d0..d7, stop
Frame10(b) == << 0 >> \o [i \in 1..8 |-> BitAt(b, i - 1)] \o << 1 >>

IsPrefix(s, t) == Len(s) <= Len(t) /\ \A i \in 1..Len(s) : s[i] = t[i]

\* the transmitter is idle: its compare interrupt is disarmed
TxIdle == ~Bit(TACCTL0, CCIE)

\* a frame has been accepted and has run to its end
TxFrameDone == TxIdle /\ pc \notin {"L144", "L145", "L146"} /\ hist.accepted # << >>

\* C1: for every accepted byte b the levels TXD takes at the compare matches
\* that follow the acceptance are mark (the line still idle), then the ten
\* levels start 0, b0..b7, stop 1; the matches are one bit period apart
\* starting one bit period after the acceptance; a finished frame has had
\* exactly these eleven matches and leaves the line at mark
C1_TxWaveform ==
    hist.accepted # << >> =>
        /\ hist.txIdle = 1
        /\ IsPrefix(hist.txLevels, << 1 >> \o Frame10(hist.txByte))
        /\ \A i \in 1..Len(hist.txTimes) :
             hist.txTimes[i] = (hist.txAccT + i * UART_TBIT) % Word
        /\ Len(hist.txTimes) = Len(hist.txLevels)
        /\ TxFrameDone => (Len(hist.txLevels) = 11 /\ TXD = 1)

\* C1 witness: the frame of 0x41 has run to its end
C1_Witness ==
    /\ TxFrameDone
    /\ hist.txByte = 65
    /\ hist.txLevels = << 1, 0, 1, 0, 0, 0, 0, 0, 1, 0, 1 >>

\* the value of the bit sequence s, its first element being bit 0
RECURSIVE BitsValue(_)
BitsValue(s) == IF s = << >> THEN 0 ELSE Head(s) + 2 * BitsValue(Tail(s))

\* all eleven compare matches of the current frame have happened and the
\* counter is at least n ticks past the match that drove the start bit
SinceStartEdge(n) ==
    /\ Len(hist.txTimes) = 11
    /\ (TAR - hist.txTimes[2]) % Word >= n

\* C2: loopback round trip.  With TXD wired to RXD, one frame time (ten bit
\* periods) after the start bit of an accepted byte b went onto the line the
\* receive handler has completed one frame for every byte accepted so far
\* and rxBuffer holds b.
C2_LoopbackRoundTrip ==
    (loopback /\ SinceStartEdge(10 * UART_TBIT)) =>
        /\ isr = "none"
        /\ hist.done = Len(hist.accepted)
        /\ hist.rxBytes[hist.done] = hist.txByte
        /\ rxBuffer = hist.txByte

\* C2 witness: a full frame time after the start edge of an echoed 0xA5
C2_Witness ==
    /\ loopback
    /\ SinceStartEdge(10 * UART_TBIT)
    /\ hist.txByte = 165
    /\ hist.done >= 1

\* the frames accepted before the current call of TimerA_UART_tx: all those
\* accepted, but for the call's own once it is past line 143
PriorFrames ==
    IF pc \in {"L144", "L145", "L146"} THEN Len(hist.accepted) - 1
    ELSE Len(hist.accepted)

\* the foreground writes a register or variable of the transmit engine
FgWritesTx ==
    /\ pc' # pc
    /\ << txData', TACCR0', TACCTL0' >> # << txData, TACCR0, TACCTL0 >>

\* C3: TimerA_UART_tx called while a frame is in flight leaves it alone.
\* The foreground changes txData, TACCR0 or TACCTL0 only when every frame
\* accepted before has run to its end; it gets past the wait of line 140
\* only with the transmitter idle and the bit counter reloaded; and every
\* frame that has run to its end shows the waveform of its own byte (stated
\* of the latest frame: frames are recorded one by one and never changed).
C3_BusyTransmit ==
    /\ [][FgWritesTx => Len(hist.frames) = PriorFrames]_vars
    /\ [][(pc = "L140" /\ pc' = "L141") =>
            (TxIdle /\ txBitCnt = 10 /\ Len(hist.frames) = Len(hist.accepted))]_vars
    /\ [](LET k == Len(hist.frames)
          IN  k > 0 =>
                /\ k <= Len(hist.accepted)
                /\ hist.frames[k] = << 1 >> \o Frame10(hist.accepted[k]))

\* C3 witness: a call that had to wait goes past line 140 at the very
\* counter value at which the handler ended the frame before
C3_Witness ==
    /\ pc = "L141"
    /\ caller = "print"
    /\ Len(hist.frames) = 3
    /\ Len(hist.txTimes) = 11
    /\ TAR = hist.txTimes[11]

\* C4: mailbox overwrite.  Whatever number of frames the receive handler
\* completed since the last consume, the byte main reads at line 109 is the
\* accumulator of the latest completed frame; the frames before it are read
\* by no consume (each consume reads a later frame than the one before).
C4_MailboxOverwrite ==
    hist.consumed > 0 =>
        /\ hist.seenAt \in 1..Len(hist.rxBytes)
        /\ value = hist.rxBytes[hist.seenAt]
        /\ hist.skipped >= 1
        /\ hist.seenAt = hist.prevSeenAt + hist.skipped

\* C4 witness: two frames with different bytes completed before one consume
C4_Witness ==
    /\ hist.consumed > 0
    /\ hist.skipped = 2
    /\ hist.rxBytes[hist.seenAt - 1] # hist.rxBytes[hist.seenAt]
    /\ value = hist.rxBytes[hist.seenAt]

\* C5: receive byte reconstruction.  The byte stored for a frame is the sum
\* of s_i * 2^i over the eight levels s_0..s_7 latched at the frame's compare
\* events in arrival order; the handler invocation that takes the eighth
\* sample stores it in rxBuffer and then reloads the bit counter, re-arms
\* capture mode and clears CPUOFF for the foreground.
C5_RxReconstruction ==
    /\ [](hist.done > 0 =>
            /\ Len(hist.got) = 8
            /\ hist.acc = BitsValue(hist.got)
            /\ rxBuffer = hist.acc)
    /\ []((isr = "none" /\ Bit(TACCTL1, CAP)) => rxBitCnt = 8)
    /\ [][hist.done' # hist.done =>
            (isr' = "A1_206" /\ rxBuffer' = BitsValue(hist.rxSamples))]_vars
    /\ [][isr = "A1_206" =>
            (isr' = "none" /\ rxBitCnt' = 8 /\ Bit(TACCTL1', CAP) /\ ~LPM0')]_vars

\* C5 witness: the frame 1,0,1,0,0,1,0,1 (0xA5) has been stored
C5_Witness ==
    /\ hist.done > 0
    /\ isr = "none"
    /\ hist.got = << 1, 0, 1, 0, 0, 1, 0, 1 >>
    /\ rxBuffer = 165
    /\ Bit(TACCTL1, CAP)

\* the start-up text, and the number of its characters TimerA_UART_print
\* has passed to TimerA_UART_tx so far
BootText == Banner \o Ready

Passed ==
    IF string.id = 1 THEN string.idx - 1 ELSE Len(Banner) + string.idx - 1

\* the foreground is inside TimerA_UART_print or a call it made
InPrint ==
    \/ pc = "L154"
    \/ caller = "print" /\ pc \in {"L140", "L141", "L142", "L143", "L144",
                                   "L145", "L146"}

\* C6: TimerA_UART_print transmits one frame per character of its string, in
\* string order: inside the call the bytes accepted so far are the characters
\* passed so far, every frame that has run to its end shows the waveform of
\* the character at its place, a byte is accepted only with every frame
\* before it ended and the line back at mark, the call returns exactly when
\* the character before the NUL has been accepted, and it does return.
C6_PrintFrames ==
    /\ [](InPrint =>
            /\ Len(hist.accepted) =
                 (IF pc \in {"L140", "L141", "L142", "L143"}
                  THEN Passed - 1 ELSE Passed)
            /\ hist.accepted = SubSeq(BootText, 1, Len(hist.accepted)))
    /\ [](\A k \in 1..Len(hist.frames) :
            k <= Len(BootText) =>
                hist.frames[k] = << 1 >> \o Frame10(BootText[k]))
    /\ [][Len(hist.accepted') > Len(hist.accepted) =>
            (Len(hist.frames) = Len(hist.accepted) /\ TxIdle /\ TXD = 1)]_vars
    /\ [][(pc = "L154" /\ pc' \in {"L101", "L106"}) =>
            /\ string.idx = Len(Text(string.id)) + 1
            /\ hist.accepted = SubSeq(BootText, 1, Passed)]_vars
    /\ (pc = "L154") ~> (pc \in {"L101", "L106"})
    /\ <>(pc = "L106" /\ SubSeq(hist.accepted, 1, Len(BootText)) = BootText)

\* C6 witness: the second call has returned with all 27 characters accepted
\* in order, the frame of the last one still on the line
C6_Witness ==
    /\ pc = "L106"
    /\ iter = 0
    /\ hist.accepted = BootText
    /\ Len(hist.frames) = Len(BootText) - 1
    /\ ~TxIdle

\* C7: an accepted frame always runs to its end.  A transmitter that is
\* armed gets back to idle with the bit counter reloaded; the handler runs
\* ten bit-emitting times (the counter tells how many are done) and an
\* eleventh time that ends the frame; the interrupt is disarmed by that
\* eleventh invocation only, and while a frame is in flight TACCR0 is moved
\* by the handler alone.
C7_TxCompletes ==
    /\ Bit(TACCTL0, CCIE) ~> (TxIdle /\ txBitCnt = 10)
    /\ [](Bit(TACCTL0, CCIE) =>
            (hist.txIsr <= 10 /\ hist.txIsr = 10 - txBitCnt))
    /\ []((TxIdle /\ hist.accepted # << >>) =>
            (hist.txIsr = 11 /\ txBitCnt = 10))
    /\ [][(Bit(TACCTL0, CCIE) /\ ~Bit(TACCTL0', CCIE)) =>
            (txBitCnt = 0 /\ hist.txIsr = 10 /\ hist'.txIsr = 11
             /\ txBitCnt' = 10)]_vars
    /\ [][(Bit(TACCTL0, CCIE) /\ TACCR0' # TACCR0) =>
            hist'.txIsr = hist.txIsr + 1]_vars

\* C7 witness: the echo of a received byte has run to its end, eleven
\* handler invocations after its acceptance
C7_Witness ==
    /\ TxIdle
    /\ txBitCnt = 10
    /\ hist.txIsr = 11
    /\ Len(hist.accepted) = Len(BootText) + 1
    /\ Len(hist.frames) = Len(hist.accepted)

\* the foreground reads the mailbox: the argument of setRows at line 109,
\* the argument of TimerA_UART_tx at line 123
ReadsMailbox == pc \in {"L109", "L123"} /\ pc' # pc

\* C8: the mailbox write and the wake are one transition for main.  Between
\* the write of rxBuffer and the wake only the handler runs: the foreground
\* takes no step and reads no mailbox while a handler is active; when CPUOFF
\* is cleared rxBuffer holds the accumulator of the frame just completed, and
\* so it does when main reads it at line 109.
C8_WriteThenWake ==
    /\ [][isr # "none" =>
            (UNCHANGED << pc, value, byte, caller, string >>
             /\ isr' = "none" /\ ~LPM0' /\ rxBuffer' = rxBuffer)]_vars
    /\ [][ReadsMailbox => isr = "none"]_vars
    /\ [][(LPM0 /\ ~LPM0') =>
            (isr = "A1_206" /\ hist.unread >= 1 /\ rxBuffer' = hist.acc
             /\ rxBuffer' = rxData')]_vars
    /\ [][(pc = "L109" /\ pc' # pc) =>
            (hist.unread >= 1 /\ value' = hist.acc
             /\ value' = hist.rxBytes[hist.done])]_vars
    /\ [](isr # "none" => (rxBuffer = hist.acc /\ rxBuffer = rxData))

\* C8 witness: main, woken out of LPM0 by the far end's frame, has read that
\* frame's byte at line 109
C8_Witness ==
    /\ ~loopback
    /\ pc = "setRows"
    /\ hist.woke
    /\ hist.done = 1
    /\ value = 255
    /\ value = hist.acc

\* C9 as stated: the bit counter is 10 if and only if no frame is in flight
C9_Original == (txBitCnt = 10) <=> TxIdle

\* C9, amended: the bit counter is always in 0..10; the transmitter is idle
\* exactly when every accepted frame has run to its end, and counting
\* otherwise; idle implies the counter is 10 and any other value means a frame
\* is in flight, 10 - txBitCnt of its bits handed to the output unit; with a
\* frame in flight the counter is 10 only until the handler's first
\* invocation; right after the acceptance at line 143 the counter is 10.
C9_TxCounter ==
    /\ txBitCnt \in 0..10
    /\ TxIdle <=> (Len(hist.frames) = Len(hist.accepted))
    /\ ~TxIdle <=> (Len(hist.frames) = Len(hist.accepted) - 1)
    /\ TxIdle => txBitCnt = 10
    /\ txBitCnt # 10 => (~TxIdle /\ hist.txIsr = 10 - txBitCnt)
    /\ (~TxIdle /\ txBitCnt = 10) => hist.txIsr = 0
    /\ pc = "L144" => (~TxIdle /\ txBitCnt = 10)

\* C9 witness: a frame in flight with three bits still to hand over
C9_Witness ==
    /\ ~TxIdle
    /\ txBitCnt = 3
    /\ hist.txIsr = 7
    /\ Len(hist.txLevels) >= 7

\* the offset of the i-th sample target from the start-edge capture
SampleOffset(i) == UART_TBIT + UART_TBIT_DIV_2 + UART_TBIT * (i - 1)

\* C10: receive sample timing.  After a start edge captured at counter value
\* c the samples are taken at c + 156 + 104 * k (k = 0..7) modulo 2^16, each
\* strictly inside the period of data bit k of the frame that began at c;
\* once TimerA_UART_init has run, TACCR1 in compare mode holds the target of
\* the next sample, c + 156 right after the switch; with TXD wired to RXD sample k is taken half a bit
\* period after the compare match that put data bit k on the line.
C10_RxSampleTiming ==
    /\ \A i \in 1..Len(hist.rxTimes) :
         LET off == (hist.rxTimes[i] - hist.capT) % Word
         IN  /\ off = 156 + 104 * (i - 1)
             /\ off = SampleOffset(i)
             /\ off > i * UART_TBIT
             /\ off < (i + 1) * UART_TBIT
             /\ (loopback /\ Len(hist.txTimes) >= i + 2) =>
                    (hist.rxTimes[i] - hist.txTimes[i + 2]) % Word
                        = UART_TBIT_DIV_2
    /\ Len(hist.rxTimes) <= 8
    /\ (Bit(TACCTL1, CCIE) /\ ~Bit(TACCTL1, CAP) /\ isr = "none") =>
         TACCR1 = IF Pend1
                  THEN hist.rxTimes[Len(hist.rxTimes)]
                  ELSE (hist.capT + SampleOffset(Len(hist.rxTimes) + 1)) % Word
    /\ (Bit(TACCTL1, CAP) /\ Pend1) => TACCR1 = hist.capT

\* C10 witness: all eight samples of a frame whose sample targets wrapped
\* around the 16-bit counter
C10_Witness ==
    /\ Len(hist.rxTimes) = 8
    /\ hist.rxTimes[1] > hist.capT
    /\ hist.rxTimes[8] < hist.capT
    /\ hist.rxTimes[8] = (hist.capT + 884) % Word

\* a start edge has been captured and its handler invocation is due
RxCaptured == Bit(TACCTL1, CAP) /\ Pend1

\* C11: no framing validation, self-resynchronisation.  Whatever levels
\* follow a captured falling edge (a start bit cut short, any data, a stop
\* bit period at space), the capture leads to the handler invocation that
\* delivers; that invocation has taken exactly 8 samples, stores their byte,
\* wakes main and leaves the receiver in capture mode with the bit counter
\* at 8; compare mode is left in no other way (no frame is rejected); no
\* sample falls into the start bit period or the stop bit period; and the
\* byte delivered for a malformed frame is its data byte, whatever its start
\* and stop levels were; a well-formed frame that follows when the line is
\* back at rest is received as its byte.
C11_NoFramingCheck ==
    /\ RxCaptured ~> (isr = "A1_206")
    /\ [][isr = "A1_206" =>
            /\ Len(hist.rxSamples) = 8
            /\ rxBuffer = BitsValue(hist.rxSamples)
            /\ isr' = "none" /\ ~LPM0'
            /\ Bit(TACCTL1', CAP) /\ rxBitCnt' = 8]_vars
    /\ [](Len(hist.rxSamples) <= 8)
    /\ [][(Bit(TACCTL1, CCIE) /\ ~Bit(TACCTL1, CAP) /\ Bit(TACCTL1', CAP)) =>
            isr = "A1_206"]_vars
    /\ [](\A i \in 1..Len(hist.rxTimes) :
            LET off == (hist.rxTimes[i] - hist.capT) % Word
            IN  off > UART_TBIT /\ off < 9 * UART_TBIT)
    /\ [][(hist'.done # hist.done /\ hist.capT = hist.far.start
           /\ sPeriod = UART_TBIT_DIV_2) => rxBuffer' = sByte]_vars
    /\ [][(hist'.done # hist.done /\ sPeriod = UART_TBIT) =>
            rxBuffer' = sByte]_vars

\* C11 witness: a frame whose start bit lasted half a bit period and whose
\* stop bit period was at space has been delivered as its data byte 0x5A
C11_Witness ==
    /\ hist.done = 1
    /\ hist.far.glitch = 1
    /\ hist.far.stop = 0
    /\ hist.capT = hist.far.start
    /\ rxBuffer = 90
    /\ isr = "none"
    /\ Bit(TACCTL1, CAP)
    /\ rxBitCnt = 8

\* the handler takes a sample out of the receive latch: an invocation in
\* compare mode, which counts the bit
SampleRead == isr = "none" /\ rxBitCnt' # rxBitCnt

\* C12: the bit shifted into the accumulator is the level RXD had at the
\* compare match, as latched in SCCI, not the level RXD has when the handler
\* runs: after every sample invocation the accumulator's top bit is the level
\* recorded at the match, and the byte stored is made of the levels at the
\* eight matches.
C12_LatchedSample ==
    /\ [][SampleRead =>
            /\ ~Bit(TACCTL1, CAP)
            /\ rxData' \div 128 = hist.rxSamples[Len(hist.rxSamples)]
            /\ rxData' % 128 = rxData \div 2]_vars
    /\ [](isr = "A1_206" =>
            /\ rxData \div 128 = hist.rxSamples[8]
            /\ rxBuffer = BitsValue(hist.rxSamples))

\* C12 witness: the handler read the eighth sample late, when the far end
\* had already gone from data bit 7 (space) to the stop bit (mark), and
\* stored the byte with bit 7 clear
C12_Witness ==
    /\ isr = "A1_206"
    /\ ~loopback
    /\ TAR # hist.rxTimes[8]
    /\ hist.rxSamples[8] = 0
    /\ RXD = 1
    /\ rxBuffer = 65

\* C13: main, suspended at line 106, resumes only by the handler invocation
\* that takes the eighth sample.  CPUOFF is cleared in no step but the exit
\* of that invocation; an invocation of the transmit handler, of the receive
\* handler on the start edge or on one of the samples 1..7 leaves main
\* suspended; a suspended main stands behind line 106 and takes no step.
C13_WakeOnFrameOnly ==
    /\ [][(LPM0 /\ ~LPM0') =>
            /\ isr = "A1_206"
            /\ Len(hist.rxSamples) = 8
            /\ rxBitCnt = 0]_vars
    /\ [][(LPM0 /\ isr = "none" /\ isr' = "none") => (LPM0' /\ fg' = fg)]_vars
    /\ [](LPM0 => pc = "L109")

\* C13 witness: main sleeps in its second wait while its echo is on the
\* looped-back line: the transmit handler has run nine times, the receive
\* handler has taken the start edge and seven samples, and main still sleeps
C13_Witness ==
    /\ LPM0
    /\ loopback
    /\ iter >= 1
    /\ ~TxIdle
    /\ txBitCnt = 1
    /\ ~Bit(TACCTL1, CAP)
    /\ ~Pend1
    /\ rxBitCnt = 1
    /\ Len(hist.rxSamples) = 7

\* the state of the receive engine and the state of the transmit engine
rxState == << TACCR1, TACCTL1, rxData, rxBitCnt, rxBuffer >>

txState == << TACCR0, TACCTL0, txData, txBitCnt >>

\* one invocation of the transmit handler
TxHandlerStep == isr = "none" /\ pc' = pc /\ hist'.txIsr = hist.txIsr + 1

\* one statement of TimerA_UART_tx
TxCallStep ==
    /\ pc \in {"L140", "L141", "L142", "L143", "L144", "L145", "L146"}
    /\ pc' # pc

\* one step of the receive handler: the invocation takes the request flag of
\* channel 1 away, or the handler is at its lines 206-208
RxHandlerStep ==
    \/ isr = "A1_206"
    \/ /\ isr = "none"
       /\ pc' = pc
       /\ Bit(TACCTL1, CCIFG)
       /\ ~Bit(TACCTL1', CCIFG)

\* C14: the engines are independent.  The transmit handler and
\* TimerA_UART_tx leave TACCR1, TACCTL1, rxData, rxBitCnt and rxBuffer as
\* they are; the receive handler leaves TACCR0, TACCTL0, txData and txBitCnt
\* as they are; and however the handler invocations interleave, a frame sent
\* is the frame of the byte accepted and a byte delivered is the byte on the
\* receive line (the far end's, or on a looped-back line the byte of the
\* transmitter's frame of the same number).
C14_Independence ==
    /\ [][(TxHandlerStep \/ TxCallStep) => rxState' = rxState]_vars
    /\ [][RxHandlerStep => txState' = txState]_vars
    /\ [](hist.frames # << >> =>
            hist.frames[Len(hist.frames)] =
                << 1 >> \o Frame10(hist.accepted[Len(hist.frames)]))
    /\ [][hist'.done # hist.done =>
            rxBuffer' = IF loopback THEN hist.accepted[hist'.done] ELSE sByte]_vars

\* C14 witness: the receive handler delivers the far end's 0xFF in the
\* middle of the frame the transmitter sends for 0x41
C14_Witness ==
    /\ isr = "A1_206"
    /\ ~loopback
    /\ rxBuffer = 255
    /\ ~TxIdle
    /\ hist.txByte = 65
    /\ Len(hist.txLevels) >= 5
    /\ txBitCnt < 10
    /\ IsPrefix(hist.txLevels, << 1 >> \o Frame10(65))

\* nothing is under way that could wake main: main is suspended, the
\* transmitter is idle, the receiver waits for a start edge and the far end
\* holds the line at mark with no frame begun
NothingUnderWay ==
    /\ Quiescent
    /\ isr = "none"
    /\ RXD = 1
    /\ sBits = << >>

\* C15: no lost wake-up.  A frame completed while main was not suspended is
\* consumed without a further frame having to arrive: main's next wait
\* returns, so main is never found suspended, with nothing under way, while
\* a completed frame has not been consumed.
C15_NoLostWakeup == NothingUnderWay => hist.unread = 0

\* both scenarios in one specification: the boot from reset, and the echo of
\* any byte with the counter about to wrap round
InitBootOrEcho == Init \/ InitEcho

SpecBootOrEcho == InitBootOrEcho /\ [][Next]_vars

\* C16: an idle transmitter holds TXD at mark.  From TimerA_UART_init on,
\* whenever the compare interrupt of channel 0 is disarmed TXD is 1, and so
\* it is left by every hardware compare match that falls into the idle time;
\* an accepted byte leaves the line at mark up to the second compare match,
\* which is the first to drive space, one full bit period after the first,
\* which drove mark.
C16_IdleMark ==
    /\ (TxIdle /\ pc # "L99") => TXD = 1
    /\ (~TxIdle /\ Len(hist.txLevels) <= 1) => TXD = 1
    /\ hist.accepted # << >> => hist.txIdle = 1
    /\ Len(hist.txLevels) >= 2 =>
          /\ hist.txLevels[1] = 1
          /\ hist.txLevels[2] = 0
          /\ (hist.txTimes[2] - hist.txTimes[1]) % Word = UART_TBIT

\* C16 witness: a frame has been sent, the transmitter is idle, and the
\* hardware has had a compare match of channel 0 in the idle time, after the
\* counter wrapped round; TXD is at mark
C16_Witness ==
    /\ TxIdle
    /\ hist.frames # << >>
    /\ Bit(TACCTL0, CCIFG)
    /\ TAR < hist.txAccT
    /\ TXD = 1

\* the invocation of the receive handler on a start edge
RxStartStep == isr = "none" /\ Bit(TACCTL1, CAP) /\ ~Bit(TACCTL1', CAP)

\* C17: the accumulator keeps its residue over a start edge, and the residue
\* does not reach the mailbox.  The invocation on the start edge leaves
\* rxData as it is, whatever it holds; the byte stored at the end of the
\* frame is the value of the eight levels sampled in this frame, the same
\* for every residue the accumulator started the frame with.
C17_ResidueIndependence ==
    /\ [][RxStartStep => (rxData' = rxData /\ rxBitCnt' = rxBitCnt)]_vars
    /\ [][hist'.done # hist.done =>
            /\ Len(hist.rxSamples) = 8
            /\ rxBuffer' = BitsValue(hist.rxSamples)
            /\ rxData' = rxBuffer']_vars
    /\ []((isr = "none" /\ Bit(TACCTL1, CAP) /\ hist.done > 0) =>
            rxData = hist.rxBytes[Len(hist.rxBytes)])

\* C17 witness: the accumulator went into the second frame holding 0xFF,
\* the byte of the first, and the second frame delivered 0x41
C17_Witness ==
    /\ isr = "none"
    /\ hist.rxBytes = << 255, 65 >>
    /\ hist.got = << 1, 0, 0, 0, 0, 0, 1, 0 >>
    /\ rxBuffer = 65

\* TimerA_UART_tx has armed the compare interrupt (line 143) and has not yet
\* finished loading txData (lines 144-146)
TxLoading == pc \in {"L144", "L145", "L146"}

\* the frame of byte b as TimerA_UART_tx loads it: start bit, data, stop bit
TxLoaded(b) == TxStartBit(TxStopBit(b))

RECURSIVE ShiftRight(_, _)
ShiftRight(x, n) == IF n = 0 THEN x ELSE ShiftRight(x \div 2, n - 1)

\* C18: the interrupt is armed before txData is loaded, and no invocation of
\* the transmit handler falls between the two.  With the foreground held up
\* in TimerA_UART_tx by at most MaxLatency ticks (a receive handler
\* preempting it), no compare match of channel 0 is pending and no transmit
\* handler runs while txData is being loaded; every invocation finds in
\* txData the loaded frame of the accepted byte, shifted once per earlier
\* invocation.
C18_ArmBeforeLoad ==
    /\ [][(pc = "L143" /\ pc' # pc) =>
            (Bit(TACCTL0', CCIE) /\ txData' = txData)]_vars
    /\ [](TxLoading => (~TxIdle /\ ~Pend0 /\ hist.txIsr = 0))
    /\ [][TxHandlerStep =>
            /\ ~TxLoading
            /\ txData = ShiftRight(TxLoaded(hist.txByte), hist.txIsr)]_vars

\* C18 witness: the receive handler is running, at its lines 206-208, inside
\* the window: the interrupt is armed, txData not yet loaded, and the counter
\* has moved on since TimerA_UART_tx read it
C18_Witness ==
    /\ TxLoading
    /\ isr = "A1_206"
    /\ TAR # hist.tarRead
    /\ Bit(TACCTL0, CCIE)
    /\ txData # TxLoaded(byte)

\* main is inside the TimerA_UART_tx call of line 123, whose argument is the
\* second read of rxBuffer in this iteration
InEcho ==
    /\ caller = "main"
    /\ pc \in {"L140", "L141", "L142", "L143", "L144", "L145", "L146"}

\* C19: within one iteration of the main loop the byte given to setRows
\* (line 109) is the byte given to TimerA_UART_tx (line 123).
C19_SameByteBothReads == InEcho => byte = value

\* C20: the bit boundaries of a frame do not drift.  Every invocation of the
\* transmit handler moves the compare target on by UART_TBIT from the target
\* before, modulo 2^16, however late it runs; so the compare matches, where
\* TXD takes its levels, are exactly UART_TBIT apart, also across the wrap
\* of the counter, the first of them UART_TBIT after the counter value
\* TimerA_UART_tx read when it accepted the byte, and the target always is
\* that value plus one bit period per invocation and one more.
C20_NoDrift ==
    /\ [][TxHandlerStep => TACCR0' = (TACCR0 + UART_TBIT) % Word]_vars
    /\ [](\A i \in 2..Len(hist.txTimes) :
            (hist.txTimes[i] - hist.txTimes[i - 1]) % Word = UART_TBIT)
    /\ [](hist.txTimes # << >> =>
            hist.txTimes[1] = (hist.txAccT + UART_TBIT) % Word)
    /\ []((hist.accepted # << >> /\ pc \notin {"L142", "L143"}) =>
            TACCR0 = (hist.txAccT + (hist.txIsr + 1) * UART_TBIT) % Word)

\* C20 witness: in a frame that runs across the wrap of the counter (the
\* first match was before the wrap, the target is behind it) the request of
\* a compare match has been waiting for the handler for at least 50 ticks
C20_Witness ==
    /\ Pend0
    /\ isr = "none"
    /\ (TAR - TACCR0) % Word >= 50
    /\ Len(hist.txTimes) >= 2
    /\ hist.txTimes[1] > TACCR0
    /\ hist.txTimes[Len(hist.txTimes)] = TACCR0

====
